---- MODULE Spec2Model ----
(***************************************************************************)
(* Free Fire ban-check relay: the two Flask variants (src/api/index.py,    *)
(* blocking `requests`; src/app.py, aiohttp on a private event loop) and   *)
(* the normalizing client (src/utils.py).  One request is followed from    *)
(* its arrival through the before_request hook, routing, the handler, the  *)
(* single outbound call and the after_request hook.                        *)
(*                                                                         *)
(* Python values are records tagged with their type (field t).  A string   *)
(* is a sequence of pieces: a literal of the source is one piece, text     *)
(* produced at run time (a uid, the digits of a number) is one piece per   *)
(* character.                                                              *)
(***************************************************************************)
EXTENDS Integers, Sequences, FiniteSets, TLC

\* ------------------------------------------------------------- bounds
MaxUidLen == 2

\* ------------------------------------------------------ Python values
None == [t |-> "NoneType"]
PStr(s) == [t |-> "str", s |-> s]
PInt(n) == [t |-> "int", n |-> n]
PBool(b) == [t |-> "bool", b |-> b]
PList(items) == [t |-> "list", items |-> items]
PDict(o) == [t |-> "dict", o |-> o]
EmptyDict == PDict(<<>>)

\* bool(v): Python truth value of a JSON-derived value.
Truthy(v) ==
    CASE v.t = "NoneType" -> FALSE
      [] v.t = "str" -> v.s # <<>>
      [] v.t = "int" -> v.n # 0
      [] v.t = "bool" -> v.b
      [] v.t = "list" -> v.items # <<>>
      [] v.t = "dict" -> DOMAIN v.o # {}

\* dict.get(k, default)
Get(d, k, default) == IF k \in DOMAIN d.o THEN d.o[k] ELSE default

AsciiDigit == {"0", "1", "2", "3", "4", "5", "6", "7", "8", "9"}
\* Characters outside 0-9 whose Unicode Numeric_Type is Digit or Decimal:
\* ARABIC-INDIC DIGIT THREE and SUPERSCRIPT TWO.
UnicodeDigit == {"u0663", "u00B2"}

\* str.isdigit(): non-empty and every character is a Unicode digit.
isdigit(s) == s # <<>> /\ \A i \in 1..Len(s) : s[i] \in AsciiDigit \cup UnicodeDigit

DigitChar == <<"0", "1", "2", "3", "4", "5", "6", "7", "8", "9">>

RECURSIVE Digits(_)
\* str(n) / f"{n}" of a non-negative int.
Digits(n) == IF n < 10 THEN <<DigitChar[n + 1]>>
             ELSE Digits(n \div 10) \o <<DigitChar[(n % 10) + 1]>>

\* str(v) as applied to data['uid'].
str(v) ==
    CASE v.t = "str" -> v.s
      [] v.t = "int" -> Digits(v.n)
      [] v.t = "NoneType" -> <<"N", "o", "n", "e">>
      [] v.t = "bool" -> IF v.b THEN <<"T", "r", "u", "e">> ELSE <<"F", "a", "l", "s", "e">>
      [] v.t = "list" -> <<"[">> \o (IF v.items = <<>> THEN <<>> ELSE <<"...">>) \o <<"]">>
      [] v.t = "dict" -> <<"{">> \o (IF DOMAIN v.o = {} THEN <<>> ELSE <<"...">>) \o <<"}">>

IsSubstr(sub, s) ==
    \E i \in 0..(Len(s) - Len(sub)) : SubSeq(s, i + 1, i + Len(sub)) = sub

UidKey == <<"u", "i", "d">>

\* ------------------------------------------------------------ messages
MsgInvalidUid == PStr(<<"Invalid UID. Please provide a valid numeric user ID.">>)
MsgMissingUid == PStr(<<"Missing 'uid' in request body">>)
MsgUnavailable == PStr(<<"Could not retrieve ban information. Please try again later.">>)
MsgSuccess == PStr(<<"Ban check completed successfully">>)
MsgApiError == PStr(<<"API returned an error">>)
ApiSource == PStr(<<"Official Garena API">>)
DefaultLang == PStr(<<"en">>)

\* ----------------------------------------------------- upstream replies
\* What the single outbound GET ends with: a transport-level failure
\* (kind "timeout", "dns", "refused") or an HTTP reply (kind "http") with a
\* status code and a body.  A body is unparsable (parsed = FALSE) or a JSON
\* document (json).  jsonExc is the class response.json() raises on an
\* unparsable body: requests raises requests.exceptions.JSONDecodeError (a
\* RequestException) from 2.27 on and a plain ValueError before.
TransportKinds == {"timeout", "dns", "refused"}
HttpStatuses == {200, 201, 204, 304, 403, 404, 500, 503}

Unparsable(exc) == [parsed |-> FALSE, jsonExc |-> exc]
Parsed(v) == [parsed |-> TRUE, json |-> v]

TransportFailure(k) == [kind |-> k]
HttpReply(status, body) == [kind |-> "http", status |-> status, body |-> body]

\* A dict over the keys whose value is given (Absent drops the key).
Absent == [t |-> "absent"]
DictOf(f) == PDict([k \in {kk \in DOMAIN f : f[kk] # Absent} |-> f[k]])

\* Bodies of the Garena endpoint (raw-passthrough variants).
GarenaErrorVals == {Absent, PBool(TRUE), PBool(FALSE), None, PStr(<<"E1">>), PInt(0)}
GarenaMessageVals == {Absent, PStr(<<>>), PStr(<<"account not found">>), None, PInt(7)}
GarenaObjects ==
    {DictOf([error |-> e, message |-> m]) : e \in GarenaErrorVals, m \in GarenaMessageVals}
        \cup {DictOf([status |-> PStr(<<"success">>), is_banned |-> PInt(1)])}
GarenaNonObjects == {None, PList(<<>>), PList(<<PInt(1)>>), PStr(<<"banned">>), PInt(5)}
GarenaBodies ==
    {Unparsable(x) : x \in {"RequestException", "ValueError"}}
        \cup {Parsed(v) : v \in GarenaObjects \cup GarenaNonObjects}

\* Bodies of the thug4ff endpoint (normalizing variant).
BanFieldNames == {"is_banned", "nickname", "period", "region"}
BanFieldSample == [is_banned |-> PInt(1), nickname |-> PStr(<<"Neo">>),
                   period |-> PInt(3), region |-> PStr(<<"IND">>)]
BanDataDicts == {PDict([k \in K |-> BanFieldSample[k]]) : K \in SUBSET BanFieldNames}
ThugDataVals == BanDataDicts \cup {Absent, None, PInt(0), PList(<<PInt(1)>>), PStr(<<"x">>)}
ThugStatusVals == {Absent, PInt(200), PInt(404), PStr(<<"2", "0", "0">>)}
ThugObjects == {DictOf([status |-> st, data |-> d]) : st \in ThugStatusVals, d \in ThugDataVals}
ThugBodies ==
    {Unparsable("ValueError")}
        \cup {Parsed(v) : v \in ThugObjects \cup {None, PList(<<>>)}}

GarenaOutcomes ==
    {TransportFailure(k) : k \in TransportKinds}
        \cup {HttpReply(200, b) : b \in GarenaBodies}
        \cup {HttpReply(s, b) : s \in HttpStatuses \ {200},
                b \in {Unparsable("ValueError"), Parsed(EmptyDict),
                       Parsed(DictOf([error |-> PBool(TRUE), message |-> PStr(<<"E1">>)]))}}

ThugOutcomes ==
    {TransportFailure(k) : k \in TransportKinds}
        \cup {HttpReply(200, b) : b \in ThugBodies}
        \cup {HttpReply(s, b) : s \in HttpStatuses \ {200},
                b \in {Unparsable("ValueError"),
                       Parsed(DictOf([status |-> PInt(200), data |-> PDict(BanFieldSample)]))}}

\* str(e) of the exception a transport failure raises.
TransportText(k) ==
    CASE k = "timeout" -> <<"Read timed out. (read timeout=15)">>
      [] k = "dns" -> <<"Failed to resolve 'ff.garena.com'">>
      [] k = "refused" -> <<"Connection refused">>

JsonErrorText == <<"Expecting value: line 1 column 1 (char 0)">>

ErrorResult(message) == PDict([error |-> PBool(TRUE), message |-> PStr(message)])

\* check_ban_garena of src/api/index.py (requests, blocking).
check_ban_garena_index(o) ==
    IF o.kind \in TransportKinds
    THEN ErrorResult(<<"Request failed: ">> \o TransportText(o.kind))
    ELSE IF o.status # 200
    THEN ErrorResult(<<"API returned status ">> \o Digits(o.status))
    ELSE IF ~o.body.parsed
    THEN IF o.body.jsonExc = "RequestException"
         THEN ErrorResult(<<"Request failed: ">> \o JsonErrorText)
         ELSE ErrorResult(<<"Unexpected error: ">> \o JsonErrorText)
    ELSE o.body.json

\* Mutant: any 2xx status counts as success.
check_ban_garena_app_2xx(o) ==
    IF o.kind \in TransportKinds
    THEN None
    ELSE IF o.status \notin 200..299
    THEN ErrorResult(<<"API returned status ">> \o Digits(o.status))
    ELSE IF ~o.body.parsed
    THEN None
    ELSE o.body.json

\* check_ban_garena of src/app.py (aiohttp).
check_ban_garena_app(o) ==
    IF o.kind \in TransportKinds
    THEN None
    ELSE IF o.status # 200
    THEN ErrorResult(<<"API returned status ">> \o Digits(o.status))
    ELSE IF ~o.body.parsed
    THEN None
    ELSE o.body.json

check_ban_garena(v, o) ==
    IF v = "index" THEN check_ban_garena_index(o) ELSE check_ban_garena_app(o)

\* check_ban of src/utils.py: raise_for_status() raises for every status
\* of 400 and above; every exception ends in None.
check_ban(o) ==
    IF o.kind \in TransportKinds THEN None
    ELSE IF o.status >= 400 THEN None
    ELSE IF ~o.body.parsed THEN None
    ELSE LET response_data == o.body.json IN
         IF response_data.t # "dict" THEN None
         ELSE IF Get(response_data, "status", None) # PInt(200) THEN None
         ELSE LET data == Get(response_data, "data", None) IN
              IF ~Truthy(data) THEN None
              ELSE IF data.t # "dict" THEN None
              ELSE PDict([is_banned |-> Get(data, "is_banned", PInt(0)),
                          nickname |-> Get(data, "nickname", PStr(<<>>)),
                          period |-> Get(data, "period", PInt(0)),
                          region |-> Get(data, "region", PStr(<<"Unknown">>))])

\* ------------------------------------------------------------ responses
JsonHeaders == ("Content-Type" :> "application/json")
HtmlHeaders == ("Content-Type" :> "text/html; charset=utf-8")

CorsHeaders ==
    ("Access-Control-Allow-Origin" :> "*")
        @@ ("Access-Control-Allow-Methods" :> "GET, POST, OPTIONS")
        @@ ("Access-Control-Allow-Headers" :> "Content-Type, Authorization")
        @@ ("Access-Control-Max-Age" :> "86400")

\* Mutant: the Access-Control-Max-Age header is left out.
add_cors_headers_no_max_age(response) ==
    [response EXCEPT !.headers =
        [h \in DOMAIN CorsHeaders \ {"Access-Control-Max-Age"} |-> CorsHeaders[h]] @@ @]

\* response.headers[k] = v for the four CORS headers.
add_cors_headers(response) == [response EXCEPT !.headers = CorsHeaders @@ @]

\* jsonify(body), code
jsonify(body, code) == [code |-> code, body |-> body, headers |-> JsonHeaders]

Envelope(status, message, data) ==
    [kind |-> "envelope", status |-> status, message |-> message, data |-> data]

PreflightBody == [kind |-> "preflight", status |-> "ok"]

HealthBody(v) ==
    [kind |-> "health", status |-> "success",
     message |-> PStr(<<"Free Fire Ban Check API is running">>),
     version |-> "2.0.0", api_source |-> ApiSource,
     cors |-> IF v = "app" THEN "Manual implementation" ELSE "absent"]

\* The route prefix of each variant's check-ban endpoints.
BanPrefix(v) == IF v = "app" THEN <<"api", "check-ban">> ELSE <<"check-ban">>

NotFoundBody(v) ==
    [kind |-> "not_found", status |-> "error", message |-> PStr(<<"Endpoint not found">>),
     available_endpoints |->
        <<"GET /",
          IF v = "app" THEN "GET /api/check-ban/<uid>?lang=<lang>"
                       ELSE "GET /check-ban/<uid>?lang=<lang>",
          IF v = "app" THEN "POST /api/check-ban" ELSE "POST /check-ban">>]

\* werkzeug's default page for an HTTPException no errorhandler is
\* registered for (405 Method Not Allowed).
MethodNotAllowed == [code |-> 405, body |-> [kind |-> "html"], headers |-> HtmlHeaders]

\* ------------------------------------------------------------- handlers
\* What a handler's code before the outbound call ends with: a response
\* (returned, or built by its except clause: exc is then the exception
\* text) or the outbound call check_ban_garena(uid, lang).
Respond(r) == [kind |-> "respond", resp |-> r, exc |-> None]
Caught(r, text) == [kind |-> "respond", resp |-> r, exc |-> PStr(text)]
Call(uid, lang) == [kind |-> "call", uid |-> uid, lang |-> lang]

\* except Exception of check_ban_status.
get_except(text) ==
    jsonify(Envelope("error", PStr(<<"An unexpected error occurred: ">> \o text), None), 500)

\* Mutant: the POST handler's except clause answers 500 like the GET handler's.
post_except_500(v, text) ==
    jsonify(Envelope("error", PStr(<<"An unexpected error occurred: ">> \o text), None), 500)

\* except Exception of check_ban_post.
post_except(v, text) ==
    jsonify(Envelope("error",
                     PStr(<<IF v = "app" THEN "Invalid JSON format: " ELSE "Invalid request: ">>
                            \o text),
                     None), 400)

\* check_ban_status up to the outbound call.  uid is the path parameter,
\* args the query string's lang (Absent when not given).
check_ban_status_validate(uid, qlang) ==
    IF uid = <<>> \/ ~isdigit(uid)
    THEN Respond(jsonify(Envelope("error", MsgInvalidUid, None), 400))
    ELSE Call(uid, IF qlang = Absent THEN DefaultLang ELSE qlang)

\* request.get_json(): raises BadRequest on a body that is not JSON; on a
\* request whose Content-Type is not JSON (or that has no body at all) it
\* returns None (Flask before 2.1) or raises UnsupportedMediaType (from
\* 2.1 on).
get_json(body, strict) ==
    CASE body.kind = "malformed" ->
            [raised |-> TRUE,
             text |-> <<"400 Bad Request: Failed to decode JSON object">>]
      [] body.kind \in {"none", "not_json_type"} ->
            IF strict
            THEN [raised |-> TRUE,
                  text |-> <<"415 Unsupported Media Type: Did not attempt to load JSON data">>]
            ELSE [raised |-> FALSE, value |-> None]
      [] body.kind = "json" -> [raised |-> FALSE, value |-> body.json]

\* 'uid' in data
ContainsUid(data) ==
    CASE data.t = "dict" -> [raised |-> FALSE, value |-> "uid" \in DOMAIN data.o]
      [] data.t = "list" ->
            [raised |-> FALSE,
             value |-> \E i \in 1..Len(data.items) : data.items[i] = PStr(UidKey)]
      [] data.t = "str" -> [raised |-> FALSE, value |-> IsSubstr(UidKey, data.s)]
      [] OTHER ->
            [raised |-> TRUE,
             text |-> <<"argument of type '", data.t, "' is not iterable">>]

\* check_ban_post up to the outbound call.
check_ban_post_validate(v, body, strict) ==
    LET got == get_json(body, strict) IN
    IF got.raised THEN Caught(post_except(v, got.text), got.text)
    ELSE LET data == got.value IN
         IF ~Truthy(data)
         THEN Respond(jsonify(Envelope("error", MsgMissingUid, None), 400))
         ELSE LET has == ContainsUid(data) IN
              IF has.raised THEN Caught(post_except(v, has.text), has.text)
              ELSE IF ~has.value
              THEN Respond(jsonify(Envelope("error", MsgMissingUid, None), 400))
              ELSE IF data.t # "dict"
              THEN LET text == <<data.t, " indices must be integers">>
                   IN Caught(post_except(v, text), text)
              ELSE LET uid == str(data.o["uid"])
                       lang == Get(data, "lang", DefaultLang)
                   IN IF ~isdigit(uid)
                      THEN Respond(jsonify(Envelope("error", MsgInvalidUid, None), 400))
                      ELSE Call(uid, lang)

\* Mutant: the language reported is the default, not the one requested.
response_data_default_lang(uid, lang, ban_data) ==
    PDict([uid |-> PStr(uid), language |-> DefaultLang, garena_response |-> ban_data,
           api_source |-> ApiSource])

\* response_data of both handlers.
response_data(uid, lang, ban_data) ==
    PDict([uid |-> PStr(uid), language |-> lang, garena_response |-> ban_data,
           api_source |-> ApiSource])

\* The handlers' code after the outbound call, up to the except clause:
\* the response returned, or the AttributeError of ban_data.get on a value
\* that is no dict.
after_call(uid, lang, ban_data) ==
    IF ban_data = None
    THEN [raised |-> FALSE,
          resp |-> jsonify(Envelope("error", MsgUnavailable, None), 503)]
    ELSE IF ban_data.t # "dict"
    THEN [raised |-> TRUE,
          text |-> <<"'", ban_data.t, "' object has no attribute 'get'">>]
    ELSE IF Truthy(Get(ban_data, "error", None))
    THEN [raised |-> FALSE,
          resp |-> jsonify(Envelope("error", Get(ban_data, "message", MsgApiError), None), 400)]
    ELSE [raised |-> FALSE,
          resp |-> jsonify(Envelope("success", MsgSuccess, response_data(uid, lang, ban_data)),
                           200)]

check_ban_status_finish(uid, lang, ban_data) ==
    LET r == after_call(uid, lang, ban_data) IN
    IF r.raised THEN Caught(get_except(r.text), r.text) ELSE Respond(r.resp)

check_ban_post_finish(v, uid, lang, ban_data) ==
    LET r == after_call(uid, lang, ban_data) IN
    IF r.raised THEN Caught(post_except(v, r.text), r.text) ELSE Respond(r.resp)

\* ------------------------------------------------------------- requests
UidChars == {"1", "u0663", "a", "-"}

RECURSIVE StringsUpTo(_)
StringsUpTo(n) ==
    IF n = 0 THEN {<<>>}
    ELSE LET shorter == StringsUpTo(n - 1)
         IN shorter \cup {Append(s, c) : s \in {x \in shorter : Len(x) = n - 1}, c \in UidChars}

UidStrings == StringsUpTo(MaxUidLen)

Methods == {"GET", "POST", "OPTIONS", "DELETE"}
Prefixes == {<<>>, <<"check-ban">>, <<"api", "check-ban">>, <<"missing">>}
QueryLangs == {Absent, PStr(<<"th">>), PStr(<<>>)}

NoBody == [kind |-> "none"]
JsonBody(v) == [kind |-> "json", json |-> v]

PostUidVals ==
    {PStr(u) : u \in UidStrings}
        \cup {Absent, PInt(7), PInt(42), None, PBool(TRUE), PList(<<>>)}
PostLangVals == {Absent, PStr(<<"th">>), None}
PostBodies ==
    {[kind |-> "malformed"], [kind |-> "not_json_type"]}
        \cup {JsonBody(v) :
                v \in {None, PInt(0), PInt(5), PBool(TRUE), PStr(<<>>), PStr(<<"x">>),
                       PStr(<<"my ">> \o UidKey), PList(<<>>), PList(<<PInt(1)>>),
                       PList(<<PStr(UidKey)>>)}}
        \cup {JsonBody(DictOf([uid |-> u, lang |-> l])) : u \in PostUidVals, l \in PostLangVals}

PathOf(prefix) == [prefix |-> prefix, hasUid |-> FALSE, uid |-> <<>>]
UidPath(prefix, uid) == [prefix |-> prefix, hasUid |-> TRUE, uid |-> uid]

Request(method, path, qlang, body) ==
    [method |-> method, path |-> path, qlang |-> qlang, body |-> body]

Requests ==
    {Request(m, PathOf(p), Absent, NoBody) : m \in Methods, p \in Prefixes}
        \cup {Request(m, UidPath(p, <<"1">>), Absent, NoBody) :
                m \in Methods \ {"GET"}, p \in Prefixes \ {<<>>}}
        \cup {Request("GET", UidPath(p, u), l, NoBody) :
                p \in Prefixes \ {<<>>}, u \in UidStrings, l \in QueryLangs}
        \cup {Request("POST", PathOf(p), Absent, b) :
                p \in {<<"check-ban">>, <<"api", "check-ban">>}, b \in PostBodies}

\* The URL map: the endpoint whose rule matches the path, "" when none.
MatchRule(v, path) ==
    IF path.prefix = <<>> /\ ~path.hasUid THEN "health_check"
    ELSE IF path.prefix = BanPrefix(v) /\ path.hasUid /\ path.uid # <<>> THEN "check_ban_status"
    ELSE IF path.prefix = BanPrefix(v) /\ ~path.hasUid THEN "check_ban_post"
    ELSE ""

RuleMethods(endpoint) == IF endpoint = "check_ban_post" THEN {"POST"} ELSE {"GET"}

Route(v, method, path) ==
    LET endpoint == MatchRule(v, path) IN
    IF endpoint = "" THEN "not_found"
    ELSE IF method \notin RuleMethods(endpoint) THEN "method_not_allowed"
    ELSE endpoint

\* ---------------------------------------------------------------- state
VARIABLES
    variant,    \* "index" (src/api/index.py), "app" (src/app.py), "utils" (src/utils.py)
    pc,         \* where the request being served is
    req,        \* the inbound request
    frame,      \* the running handler and its locals uid, lang
    calls,      \* the outbound GETs issued for this request, in order
    outcome,    \* what the outbound GET ended with
    ban_data,   \* the value check_ban_garena / check_ban returned
    exc,        \* the text of the exception the handler's except clause caught
    resp        \* the response

vars == <<variant, pc, req, frame, calls, outcome, ban_data, exc, resp>>

Variants == {"index", "app", "utils"}
NoRequest == [method |-> "none"]
NoFrame == [handler |-> "none"]
NoOutcome == [kind |-> "none"]
Unset == [t |-> "unset"]
NoResponse == [code |-> 0, body |-> [kind |-> "none"], headers |-> <<>>]

Init ==
    /\ variant \in Variants
    /\ pc = "idle"
    /\ req = NoRequest
    /\ frame = NoFrame
    /\ calls = <<>>
    /\ outcome = NoOutcome
    /\ ban_data = Unset
    /\ exc = None
    /\ resp = NoResponse

\* Mutant: the GET is issued a second time (a retry).
issue_call_retry(sent, uid, lang) ==
    Append(Append(sent, [uid |-> uid, lang |-> lang]), [uid |-> uid, lang |-> lang])

\* requests.get(api_url, params=params, ...) / session.get(api_url, params=params, ...)
issue_call(sent, uid, lang) == Append(sent, [uid |-> uid, lang |-> lang])

\* session.get(f".../check_ban/{uid}") of src/utils.py
issue_call_utils(sent, uid) == Append(sent, [uid |-> uid])

\* A request arrives.
Receive(r) ==
    /\ variant \in {"index", "app"}
    /\ pc = "idle"
    /\ pc' = "before_request"
    /\ req' = r
    /\ frame' = NoFrame
    /\ calls' = <<>>
    /\ outcome' = NoOutcome
    /\ ban_data' = Unset
    /\ exc' = None
    /\ resp' = NoResponse
    /\ UNCHANGED variant

\* @app.before_request
handle_preflight ==
    /\ pc = "before_request"
    /\ IF req.method = "OPTIONS"
       THEN /\ resp' = add_cors_headers(jsonify(PreflightBody, 200))
            /\ pc' = "after_request"
       ELSE /\ pc' = "dispatch"
            /\ UNCHANGED resp
    /\ UNCHANGED <<variant, req, frame, calls, outcome, ban_data, exc>>

health_check ==
    /\ pc = "dispatch"
    /\ Route(variant, req.method, req.path) = "health_check"
    /\ resp' = jsonify(HealthBody(variant), 200)
    /\ pc' = "after_request"
    /\ UNCHANGED <<variant, req, frame, calls, outcome, ban_data, exc>>

not_found ==
    /\ pc = "dispatch"
    /\ Route(variant, req.method, req.path) = "not_found"
    /\ resp' = jsonify(NotFoundBody(variant), 404)
    /\ pc' = "after_request"
    /\ UNCHANGED <<variant, req, frame, calls, outcome, ban_data, exc>>

method_not_allowed ==
    /\ pc = "dispatch"
    /\ Route(variant, req.method, req.path) = "method_not_allowed"
    /\ resp' = MethodNotAllowed
    /\ pc' = "after_request"
    /\ UNCHANGED <<variant, req, frame, calls, outcome, ban_data, exc>>

\* A handler's first half: it responds, or issues the outbound call and waits.
Enter(handler, step) ==
    /\ frame' = IF step.kind = "call"
                THEN [handler |-> handler, uid |-> step.uid, lang |-> step.lang]
                ELSE [handler |-> handler]
    /\ IF step.kind = "call"
       THEN /\ calls' = issue_call(calls, step.uid, step.lang)
            /\ pc' = "calling"
            /\ UNCHANGED <<resp, exc>>
       ELSE /\ resp' = step.resp
            /\ exc' = step.exc
            /\ pc' = "after_request"
            /\ UNCHANGED calls
    /\ UNCHANGED <<variant, req, outcome, ban_data>>

check_ban_status ==
    /\ pc = "dispatch"
    /\ Route(variant, req.method, req.path) = "check_ban_status"
    /\ Enter("check_ban_status", check_ban_status_validate(req.path.uid, req.qlang))

check_ban_post ==
    /\ pc = "dispatch"
    /\ Route(variant, req.method, req.path) = "check_ban_post"
    /\ \E strict \in BOOLEAN :
          Enter("check_ban_post", check_ban_post_validate(variant, req.body, strict))

\* The outbound call ends and check_ban_garena returns.
check_ban_garena_returns(o) ==
    /\ pc = "calling"
    /\ outcome' = o
    /\ ban_data' = check_ban_garena(variant, o)
    /\ pc' = "returned"
    /\ UNCHANGED <<variant, req, frame, calls, exc, resp>>

\* A handler's second half, from the returned ban_data to its response.
Finish(step) ==
    /\ resp' = step.resp
    /\ exc' = step.exc
    /\ pc' = "after_request"
    /\ UNCHANGED <<variant, req, frame, calls, outcome, ban_data>>

check_ban_status_responds ==
    /\ pc = "returned"
    /\ frame.handler = "check_ban_status"
    /\ Finish(check_ban_status_finish(frame.uid, frame.lang, ban_data))

check_ban_post_responds ==
    /\ pc = "returned"
    /\ frame.handler = "check_ban_post"
    /\ Finish(check_ban_post_finish(variant, frame.uid, frame.lang, ban_data))

\* @app.after_request
after_request ==
    /\ pc = "after_request"
    /\ resp' = add_cors_headers(resp)
    /\ pc' = "sent"
    /\ UNCHANGED <<variant, req, frame, calls, outcome, ban_data, exc>>

\* src/utils.py: check_ban(uid) is called and issues its GET.
check_ban_called(uid) ==
    /\ variant = "utils"
    /\ pc = "idle"
    /\ pc' = "utils_calling"
    /\ frame' = [handler |-> "check_ban", uid |-> uid]
    /\ calls' = issue_call_utils(<<>>, uid)
    /\ outcome' = NoOutcome
    /\ ban_data' = Unset
    /\ UNCHANGED <<variant, req, exc, resp>>

\* src/utils.py: the GET ends and check_ban returns.
check_ban_returns(o) ==
    /\ pc = "utils_calling"
    /\ outcome' = o
    /\ ban_data' = check_ban(o)
    /\ pc' = "utils_done"
    /\ UNCHANGED <<variant, req, frame, calls, exc, resp>>

\* The response has been sent (or check_ban's value taken): no state
\* survives the request.
request_done ==
    /\ pc \in {"sent", "utils_done"}
    /\ pc' = "idle"
    /\ req' = NoRequest
    /\ frame' = NoFrame
    /\ calls' = <<>>
    /\ outcome' = NoOutcome
    /\ ban_data' = Unset
    /\ exc' = None
    /\ resp' = NoResponse
    /\ UNCHANGED variant

Next ==
    \/ \E r \in Requests : Receive(r)
    \/ handle_preflight
    \/ health_check
    \/ not_found
    \/ method_not_allowed
    \/ check_ban_status
    \/ check_ban_post
    \/ \E o \in GarenaOutcomes : check_ban_garena_returns(o)
    \/ check_ban_status_responds
    \/ check_ban_post_responds
    \/ after_request
    \/ \E u \in UidStrings : check_ban_called(u)
    \/ \E o \in ThugOutcomes : check_ban_returns(o)
    \/ request_done

Spec == Init /\ [][Next]_vars

\* ================================================================ claims
BanHandlers == {"check_ban_status", "check_ban_post"}

\* The pattern ^[0-9]+$: non-empty, every character one of 0-9.
MatchesAsciiDigits(s) == s # <<>> /\ \A i \in 1..Len(s) : s[i] \in AsciiDigit

\* The handler has built its response (the after_request hook may have run).
Responded == pc \in {"after_request", "sent"}

\* A check-ban handler is serving the request.
InBanHandler == frame.handler \in BanHandlers

\* The POST body is a JSON object.
BodyIsObject == req.body.kind = "json" /\ req.body.json.t = "dict"

\* The request carries a uid: the path parameter, or the body's 'uid' member.
HasRequestUid ==
    \/ frame.handler = "check_ban_status"
    \/ frame.handler = "check_ban_post" /\ BodyIsObject /\ "uid" \in DOMAIN req.body.json.o

\* The uid the request carries, as text.
RequestUid ==
    IF frame.handler = "check_ban_status" THEN req.path.uid ELSE str(req.body.json.o["uid"])

\* The lang the request carries, "en" when it carries none.
RequestLang ==
    IF frame.handler = "check_ban_status"
    THEN IF req.qlang = Absent THEN PStr(<<"en">>) ELSE req.qlang
    ELSE IF "lang" \in DOMAIN req.body.json.o THEN req.body.json.o["lang"] ELSE PStr(<<"en">>)

IsErrorEnvelope(r, code, message) ==
    /\ r.code = code
    /\ r.body.kind = "envelope"
    /\ r.body.status = "error"
    /\ r.body.message = message
    /\ r.body.data = None

\* C1: a uid that is empty or holds a character outside 0-9 is answered 400
\* "Invalid UID..." with data null by the GET and POST handlers, and no
\* outbound call is issued at any point of handling the request.
C1_InvalidUidRejectedWithoutCall ==
    (InBanHandler /\ HasRequestUid /\ ~MatchesAsciiDigits(RequestUid))
        => /\ calls = <<>>
           /\ Responded => IsErrorEnvelope(resp, 400, MsgInvalidUid)

\* C2: when the outbound call of a validated request fails at the transport
\* level (DNS, connection refused, timeout), the client returns the
\* unreachable sentinel (None) and the handler answers 503 "Could not
\* retrieve ban information..." with data null, in every variant.
C2_TransportFailureIs503 ==
    (InBanHandler /\ outcome.kind \in TransportKinds)
        => /\ ban_data = None
           /\ Responded => IsErrorEnvelope(resp, 503, MsgUnavailable)

\* The call has ended and check_ban_garena has returned.
CallReturned == InBanHandler /\ pc \in {"returned", "after_request", "sent"}

\* d is the error-tagged result whose message holds the digits of status.
IsStatusError(d, status) ==
    /\ d.t = "dict"
    /\ DOMAIN d.o = {"error", "message"}
    /\ d.o["error"] = PBool(TRUE)
    /\ d.o["message"].t = "str"
    /\ IsSubstr(Digits(status), d.o["message"].s)

\* C3 (as claimed): every non-2xx upstream status s, and only a non-2xx one,
\* gives the error-tagged result whose message holds the digits of s, which
\* the handlers answer 400 with that message and data null; every 2xx status
\* has its body parsed.
C3_Non2xxIsErrorEvery2xxParsed ==
    (CallReturned /\ outcome.kind = "http")
        => IF outcome.status \notin 200..299
           THEN /\ IsStatusError(ban_data, outcome.status)
                /\ Responded => IsErrorEnvelope(resp, 400, ban_data.o["message"])
           ELSE outcome.body.parsed => ban_data = outcome.body.json

\* C3 (amended): every upstream status s other than 200, the other 2xx
\* codes included, gives the error-tagged result whose message holds the
\* digits of s, which the handlers answer 400 with that message and data
\* null; only status 200 has its body parsed.
C3_Non200IsErrorOnly200Parsed ==
    (CallReturned /\ outcome.kind = "http")
        => IF outcome.status # 200
           THEN /\ IsStatusError(ban_data, outcome.status)
                /\ Responded => IsErrorEnvelope(resp, 400, ban_data.o["message"])
           ELSE outcome.body.parsed => ban_data = outcome.body.json

C3_Witness ==
    /\ pc = "sent"
    /\ frame.handler = "check_ban_post"
    /\ outcome.kind = "http"
    /\ outcome.status = 403
    /\ resp.code = 400
    /\ resp.body.message = PStr(<<"API returned status ", "4", "0", "3">>)

\* The data of a successful answer, from the request and the upstream body.
ExpectedData ==
    PDict([uid |-> PStr(RequestUid), language |-> RequestLang,
           garena_response |-> outcome.body.json,
           api_source |-> PStr(<<"Official Garena API">>)])

IsSuccessEnvelope(r, data) ==
    /\ r.code = 200
    /\ r.body.kind = "envelope"
    /\ r.body.status = "success"
    /\ r.body.data = data

UpstreamOkParsed ==
    /\ InBanHandler
    /\ Responded
    /\ outcome.kind = "http"
    /\ outcome.status = 200
    /\ outcome.body.parsed

\* C4 (as claimed): for an all-digit uid and any lang, an upstream 200 with
\* a well-formed JSON object B is answered 200 "success" with data = {uid,
\* language, garena_response: B, api_source}, whatever keys B contains.
C4_Upstream200AlwaysSuccess ==
    (/\ UpstreamOkParsed
     /\ MatchesAsciiDigits(RequestUid)
     /\ outcome.body.json.t = "dict")
        => IsSuccessEnvelope(resp, ExpectedData)

\* C4 (amended): the same, for a body B that is a JSON object whose "error"
\* member is absent or falsy; the uid reported is the requested uid as text.
C4_Upstream200ObjectWithoutErrorIsSuccess ==
    (/\ UpstreamOkParsed
     /\ MatchesAsciiDigits(RequestUid)
     /\ outcome.body.json.t = "dict"
     /\ ~Truthy(Get(outcome.body.json, "error", None)))
        => IsSuccessEnvelope(resp, ExpectedData)

C4_Witness ==
    /\ pc = "sent"
    /\ frame.handler = "check_ban_status"
    /\ req.qlang = PStr(<<"th">>)
    /\ outcome.kind = "http"
    /\ outcome.status = 200
    /\ outcome.body.parsed
    /\ outcome.body.json = DictOf([error |-> PBool(FALSE), message |-> PStr(<<>>)])
    /\ resp.code = 200
    /\ resp.body.data.o["language"] = PStr(<<"th">>)

\* The request passes the handler's validation of its uid.
PassesValidation == HasRequestUid /\ isdigit(RequestUid)

\* C5: a check-ban request that passes validation has issued exactly one
\* outbound GET (with its uid and lang) by the time it responds, and no
\* request ever issues a second one, whatever the first ended with.
C5_ExactlyOneOutboundCall ==
    /\ Len(calls) <= 1
    /\ (InBanHandler /\ PassesValidation)
          => /\ Len(calls) = 1
             /\ calls[1] = [uid |-> RequestUid, lang |-> RequestLang]

C5_Witness ==
    /\ pc = "sent"
    /\ InBanHandler
    /\ outcome.kind = "timeout"
    /\ Len(calls) = 1

\* C6: the POST handler answers a body without a 'uid' key ({} included)
\* with 400 "Missing 'uid' in request body" (never the digit validation's
\* message, and with no outbound call); a malformed body, or any exception
\* raised while handling, with 400 and the error text in the message; so a
\* POST ends with 200, 400 or 503 and never 500.
C6_PostErrors ==
    (frame.handler = "check_ban_post" /\ Responded)
        => /\ resp.code \in {200, 400, 503}
           /\ (BodyIsObject /\ "uid" \notin DOMAIN req.body.json.o)
                 => IsErrorEnvelope(resp, 400, PStr(<<"Missing 'uid' in request body">>))
                       /\ calls = <<>>
           /\ ~(BodyIsObject /\ "uid" \in DOMAIN req.body.json.o)
                 => resp.code = 400 /\ calls = <<>>
           /\ req.body.kind = "malformed" => exc # None
           /\ exc # None
                 => /\ resp.code = 400
                    /\ resp.body.status = "error"
                    /\ resp.body.data = None
                    /\ resp.body.message.t = "str"
                    /\ IsSubstr(exc.s, resp.body.message.s)

C6_Witness ==
    /\ pc = "sent"
    /\ frame.handler = "check_ban_post"
    /\ outcome.kind = "http"
    /\ exc # None
    /\ resp.code = 400

\* C7: every answer of the check-ban handlers is an envelope {status,
\* message, data} with no partial result: the code is 200 iff status is
\* "success" iff data is non-null, and every 400, 503 and 500 answer has
\* status "error", a non-empty message and data null.
C7_EnvelopeNoPartialResult ==
    (InBanHandler /\ Responded)
        => /\ resp.body.kind = "envelope"
           /\ resp.code = 200 <=> resp.body.status = "success"
           /\ resp.code = 200 <=> resp.body.data # None
           /\ resp.code \in {400, 503, 500}
                 => /\ resp.body.status = "error"
                    /\ resp.body.message.t = "str"
                    /\ resp.body.message.s # <<>>
                    /\ resp.body.data = None

HasCorsHeaders(r) ==
    /\ {"Access-Control-Allow-Origin", "Access-Control-Allow-Methods",
        "Access-Control-Allow-Headers", "Access-Control-Max-Age"} \subseteq DOMAIN r.headers
    /\ r.headers["Access-Control-Allow-Origin"] = "*"
    /\ r.headers["Access-Control-Allow-Methods"] = "GET, POST, OPTIONS"
    /\ r.headers["Access-Control-Allow-Headers"] = "Content-Type, Authorization"
    /\ r.headers["Access-Control-Max-Age"] = "86400"

\* C8: an OPTIONS request to any path is answered 200 by the preflight hook
\* before any route handler runs, with no business payload and no outbound
\* call; and every response sent, whatever its method, path or status code,
\* carries the four fixed CORS headers.
C8_PreflightAndCors ==
    /\ pc = "sent" => HasCorsHeaders(resp)
    /\ req.method = "OPTIONS"
          => /\ pc \in {"before_request", "after_request", "sent"}
             /\ frame = NoFrame
             /\ calls = <<>>
             /\ Responded => resp.code = 200 /\ resp.body = [kind |-> "preflight", status |-> "ok"]

C8_Witness ==
    /\ pc = "sent"
    /\ req.method = "OPTIONS"
    /\ req.path.prefix = <<"missing">>
    /\ resp.code = 200
    /\ HasCorsHeaders(resp)

\* R[k] when R has k, d otherwise.
FieldOr(R, k, d) == IF k \in DOMAIN R.o THEN R.o[k] ELSE d

\* check_ban parsed a JSON object whose data is absent, null or an object.
NormalizedObject ==
    /\ pc = "utils_done"
    /\ outcome.kind = "http"
    /\ outcome.status < 400
    /\ outcome.body.parsed
    /\ outcome.body.json.t = "dict"
    /\ FieldOr(outcome.body.json, "data", None).t \in {"NoneType", "dict"}

\* C9: check_ban, for a parsed body R: with R.status == 200 and R.data
\* present (an empty object counts as present) the result is the record
\* {is_banned, nickname, period, region}, each field from R.data or else its
\* default 0, "", 0, "Unknown"; otherwise the result is None.
C9_NormalizedRecordOrNone ==
    NormalizedObject
        => LET R == outcome.body.json
               data == FieldOr(R, "data", None)
           IN IF FieldOr(R, "status", None) = PInt(200) /\ data.t = "dict"
              THEN ban_data = PDict([is_banned |-> FieldOr(data, "is_banned", PInt(0)),
                                     nickname |-> FieldOr(data, "nickname", PStr(<<>>)),
                                     period |-> FieldOr(data, "period", PInt(0)),
                                     region |-> FieldOr(data, "region", PStr(<<"Unknown">>))])
              ELSE ban_data = None

\* The status code a raw-passthrough variant answers when its call ends with o.
StatusCodeFor(v, o) ==
    check_ban_status_finish(<<"1">>, PStr(<<"en">>), check_ban_garena(v, o)).resp.code

OtherVariant(v) == IF v = "index" THEN "app" ELSE "index"

UnparsableOk == outcome.kind = "http" /\ outcome.status = 200 /\ ~outcome.body.parsed

\* C10: on a 2xx answer whose body is no JSON, check_ban of src/utils.py
\* returns what it returns for a transport failure, and each raw-passthrough
\* variant returns a generic error distinct from its transport-failure
\* result, so that the handler's status code differs from the one it gives
\* a timeout or connection failure and is the same in both variants.
C10_UnparsableBody ==
    /\ (pc = "utils_done" /\ outcome.kind = "http" /\ outcome.status \in 200..299
            /\ ~outcome.body.parsed)
          => \A k \in TransportKinds : ban_data = check_ban(TransportFailure(k))
    /\ (InBanHandler /\ Responded /\ UnparsableOk)
          => /\ \A k \in TransportKinds :
                   /\ ban_data # check_ban_garena(variant, TransportFailure(k))
                   /\ resp.code # StatusCodeFor(variant, TransportFailure(k))
             /\ resp.code = StatusCodeFor(OtherVariant(variant), outcome)

====
